---- MODULE Spec2Model ----
\* The Daily Typo game (src/game.js, class DailyTypoGame): the attempt tracker,
\* the guess validator, the completion store and the puzzle loader, modelled as
\* one state machine whose actions are the event handlers of the page.
EXTENDS Integers, Sequences, FiniteSets, TLC

\* --------------------------------------------------------------------------
\* Text.  A string is a sequence of one-character strings.
\* --------------------------------------------------------------------------

\* The characters /[.,!?;:()"'-]/ removes (submitGuess, line 1141).
ListedPunctuation == {".", ",", "!", "?", ";", ":", "(", ")", "\"", "'", "-"}

\* Characters outside \w: the listed punctuation, white space, and any other
\* symbol ("&" stands for the symbols that are not in the list above).
NonWordChars == ListedPunctuation \cup {" ", "&"}

LowerAlphabet ==
    <<"a","b","c","d","e","f","g","h","i","j","k","l","m",
      "n","o","p","q","r","s","t","u","v","w","x","y","z">>

UpperAlphabet ==
    <<"A","B","C","D","E","F","G","H","I","J","K","L","M",
      "N","O","P","Q","R","S","T","U","V","W","X","Y","Z">>

\* Every character a text of the model can hold
Chars ==
    {LowerAlphabet[k] : k \in 1..Len(LowerAlphabet)}
        \cup {UpperAlphabet[k] : k \in 1..Len(UpperAlphabet)} \cup NonWordChars

\* c.toLowerCase() and c.toUpperCase() of one character
LowerOf ==
    [c \in Chars |->
        IF \E k \in 1..Len(UpperAlphabet) : UpperAlphabet[k] = c
        THEN LowerAlphabet[CHOOSE k \in 1..Len(UpperAlphabet) : UpperAlphabet[k] = c]
        ELSE c]

UpperOf ==
    [c \in Chars |->
        IF \E k \in 1..Len(LowerAlphabet) : LowerAlphabet[k] = c
        THEN UpperAlphabet[CHOOSE k \in 1..Len(LowerAlphabet) : LowerAlphabet[k] = c]
        ELSE c]

toLowerChar(c) == LowerOf[c]

toUpperChar(c) == UpperOf[c]

toLowerCase(s) == [i \in 1..Len(s) |-> toLowerChar(s[i])]

\* s.replace(/[.,!?;:()"'-]/g, '')
removePunctuation(s) == SelectSeq(s, LAMBDA c : c \notin ListedPunctuation)

\* s.replace(/[^\w]/g, '')
stripNonWord(s) == SelectSeq(s, LAMBDA c : c \notin NonWordChars)

\* a.includes(b)
includes(a, b) ==
    \E i \in 0..(Len(a) - Len(b)) : SubSeq(a, i + 1, i + Len(b)) = b

Abs(n) == IF n < 0 THEN -n ELSE n

Min(a, b) == IF a < b THEN a ELSE b

\* s.trim(), for the one white-space character of the model
RECURSIVE trim(_)
trim(s) ==
    IF s = <<>> THEN s
    ELSE IF Head(s) = " " THEN trim(Tail(s))
    ELSE IF s[Len(s)] = " " THEN trim(SubSeq(s, 1, Len(s) - 1))
    ELSE s

\* parts.join(' ')
RECURSIVE join(_)
join(parts) ==
    IF parts = <<>> THEN <<>>
    ELSE IF Len(parts) = 1 THEN parts[1]
    ELSE parts[1] \o <<" ">> \o join(Tail(parts))

\* s.split(/\s+/): the maximal runs of non-space characters; a leading or a
\* trailing run of spaces yields an empty first or last piece.
RECURSIVE splitRuns(_, _)
splitRuns(s, cur) ==
    IF s = <<>> THEN <<cur>>
    ELSE IF Head(s) = " "
         THEN IF Len(s) > 1 /\ s[2] = " "
              THEN splitRuns(Tail(s), cur)
              ELSE <<cur>> \o splitRuns(Tail(s), <<>>)
         ELSE splitRuns(Tail(s), Append(cur, Head(s)))

split(s) == splitRuns(s, <<>>)

\* --------------------------------------------------------------------------
\* Bounds of the model
\* --------------------------------------------------------------------------

\* Today's civil date, in days after the first game date (currentDateString).
Today == 0

\* Wins (writes of a completion record) in one run.
MaxWins == 2

\* Elements in this.selectedWords (an element can be in it more than once).
MaxSelected == 2

\* Pending 2-second timers of markWordsAsWrong in one run.
MaxTimers == 2

\* Length of the words the match test is called with.
MaxWordLen == 4

\* The civil days, before and after the first game date, and the puzzle
\* numbers the date functions are called with.
MaxDay == 4

\* The most recent days, today included, whose records are chosen freely when
\* calculateStreak is called.
MaxRecent == 4

\* --------------------------------------------------------------------------
\* Content: articles-config.json as the page fetches it
\* --------------------------------------------------------------------------

\* null, for the fields that hold a string
Null == "null"

\* A field that holds null or a value of another kind: no value, or one value.
None == <<>>

Some(x) == <<x>>

valueOf(opt) == opt[1]

\* "Cars car cars.": one replacement, car -> cars.  The wrong word stands in
\* the text twice, and the correct word once, in a place that was not altered.
ArticleCars ==
    [title |-> "Cars",
     extract |-> <<"C","a","r","s"," ","c","a","r"," ","c","a","r","s",".">>,
     replacements |-> << [original |-> <<"c","a","r">>,
                          replacement |-> <<"c","a","r","s">>] >>,
     errorType |-> "word"]

\* "big red sun": two replacements, two distinct wrong words, one other word.
ArticleSun ==
    [title |-> "Sun",
     extract |-> <<"b","i","g"," ","r","e","d"," ","s","u","n">>,
     replacements |-> << [original |-> <<"d","i","m">>,
                          replacement |-> <<"b","i","g">>],
                         [original |-> <<"h","o","t">>,
                          replacement |-> <<"r","e","d">>] >>,
     errorType |-> "word"]

\* The regular expression of devConfirmReplacement matches at place i: the
\* word, in any case, between two word boundaries (bounded) or anywhere.
matchAt(text, i, word, bounded) ==
    /\ i + Len(word) - 1 <= Len(text)
    /\ toLowerCase(SubSeq(text, i, i + Len(word) - 1)) = toLowerCase(word)
    /\ bounded =>
          /\ i = 1 \/ text[i - 1] \in NonWordChars
          /\ i + Len(word) > Len(text) \/ text[i + Len(word)] \in NonWordChars

\* The replace callback: the case of the first letter of the match is kept.
replacementFor(match, replacement) ==
    IF match[1] = toUpperChar(match[1])
    THEN <<toUpperChar(replacement[1])>> \o Tail(replacement)
    ELSE toLowerCase(replacement)

\* Variant: the regular expression has no g flag, and the first match alone
\* is replaced.
replaceFirstOnly(text, i, word, replacement, bounded) ==
    LET hits == {j \in i..Len(text) : matchAt(text, j, word, bounded)}
    IN  IF hits = {} THEN SubSeq(text, i, Len(text))
        ELSE LET j == CHOOSE h \in hits : \A g \in hits : h <= g
             IN  SubSeq(text, i, j - 1)
                     \o replacementFor(SubSeq(text, j, j + Len(word) - 1), replacement)
                     \o SubSeq(text, j + Len(word), Len(text))

\* extract.replace(regex, callback) with the g flag, from place i on
RECURSIVE replaceFrom(_, _, _, _, _)
replaceFrom(text, i, word, replacement, bounded) ==
    IF i > Len(text) THEN <<>>
    ELSE IF matchAt(text, i, word, bounded)
         THEN replacementFor(SubSeq(text, i, i + Len(word) - 1), replacement)
                  \o replaceFrom(text, i + Len(word), word, replacement, bounded)
         ELSE <<text[i]>> \o replaceFrom(text, i + 1, word, replacement, bounded)

\* Variant: the extract is saved as it was fetched.
extractUntouched(extract, original, replacement) == extract

\* devConfirmReplacement: every occurrence of the selected word is replaced;
\* without a match between word boundaries, every match anywhere.
devConfirmReplacement(extract, original, replacement) ==
    IF \E i \in 1..Len(extract) : matchAt(extract, i, original, TRUE)
    THEN replaceFrom(extract, 1, original, replacement, TRUE)
    ELSE replaceFrom(extract, 1, original, replacement, FALSE)

\* devSaveArticle: the entry of an article with one replacement
devSaveArticle(title, extract, original, replacement) ==
    [title |-> title,
     extract |-> devConfirmReplacement(extract, original, replacement),
     replacements |-> << [original |-> original, replacement |-> replacement] >>,
     errorType |-> "word"]

\* "Paris is the capital of France."
ParisSource ==
    <<"P","a","r","i","s"," ","i","s"," ","t","h","e"," ",
      "c","a","p","i","t","a","l"," ","o","f"," ","F","r","a","n","c","e",".">>

\* The article the developer mode saves for it with capital -> largest
ArticleParis ==
    devSaveArticle("Paris", ParisSource,
                   <<"c","a","p","i","t","a","l">>,
                   <<"l","a","r","g","e","s","t">>)

\* The "articles" list of the fetched configuration.
Articles == <<ArticleCars, ArticleSun>>

\* --------------------------------------------------------------------------
\* GuessValidator: the pure part of submitGuess
\* --------------------------------------------------------------------------

\* The text of the selected elements, punctuation removed, lower-cased, joined.
guessOf(selected, dom) ==
    toLowerCase(join([k \in 1..Len(selected) |->
        toLowerCase(removePunctuation(trim(dom[selected[k]].text)))]))

guessWordsOf(guess) ==
    LET kept == SelectSeq(split(guess),
                          LAMBDA w : Len(w) > 0 /\ Len(stripNonWord(w)) > 0)
    IN  [k \in 1..Len(kept) |-> stripNonWord(kept[k])]

normalizeWords(ws) == [k \in 1..Len(ws) |-> toLowerCase(stripNonWord(ws[k]))]

\* Variant: the length condition is on the guess word alone.
errorWordTestTokenLength(normalizedGw, ew) ==
    \/ normalizedGw = ew
    \/ /\ Len(normalizedGw) >= 3
       /\ Abs(Len(normalizedGw) - Len(ew)) <= 2
       /\ (includes(normalizedGw, ew) \/ includes(ew, normalizedGw))

\* The lambda of normalizedErrorWords.some(...)
errorWordTest(normalizedGw, ew) ==
    \/ normalizedGw = ew
    \/ /\ Min(Len(normalizedGw), Len(ew)) >= 3
       /\ Abs(Len(normalizedGw) - Len(ew)) <= 2
       /\ (includes(normalizedGw, ew) \/ includes(ew, normalizedGw))

matchesError(normalizedGw, normalizedErrorWords) ==
    \E k \in 1..Len(normalizedErrorWords) :
        errorWordTest(normalizedGw, normalizedErrorWords[k])

\* The lambda of normalizedOriginalWords.some(...)
originalWordTest(normalizedGw, ow) ==
    \/ normalizedGw = ow
    \/ /\ Min(Len(normalizedGw), Len(ow)) >= 3
       /\ Abs(Len(normalizedGw) - Len(ow)) <= 2
       /\ (includes(normalizedGw, ow) \/ includes(ow, normalizedGw))

matchesOriginal(normalizedGw, normalizedOriginalWords) ==
    \E k \in 1..Len(normalizedOriginalWords) :
        originalWordTest(normalizedGw, normalizedOriginalWords[k])

\* Variant: the correct-word test comes before the error-word test.
classifyOriginalFirst(gw, errWords, origWords) ==
    LET normalizedGw == toLowerCase(stripNonWord(gw))
    IN  IF matchesOriginal(normalizedGw, normalizeWords(origWords)) THEN "original"
        ELSE IF matchesError(normalizedGw, normalizeWords(errWords)) THEN "correct"
        ELSE "extra"

\* Variant: a word that matches neither list is counted with the correct matches.
classifyExtraAsCorrect(gw, errWords, origWords) ==
    LET normalizedGw == toLowerCase(stripNonWord(gw))
    IN  IF matchesError(normalizedGw, normalizeWords(errWords)) THEN "correct"
        ELSE IF matchesOriginal(normalizedGw, normalizeWords(origWords)) THEN "original"
        ELSE "correct"

\* The branch the forEach over guessWords takes for one guess word.
classify(gw, errWords, origWords) ==
    LET normalizedGw == toLowerCase(stripNonWord(gw))
    IN  IF matchesError(normalizedGw, normalizeWords(errWords)) THEN "correct"
        ELSE IF matchesOriginal(normalizedGw, normalizeWords(origWords)) THEN "original"
        ELSE "extra"

\* The tallies of the forEach: correctMatches++ on an error match,
\* incorrectMatches++ on a correct-word match and on an extra word alike.
correctMatches(guessWords, errWords, origWords) ==
    Cardinality({k \in 1..Len(guessWords) :
        classify(guessWords[k], errWords, origWords) = "correct"})

incorrectMatches(guessWords, errWords, origWords) ==
    Cardinality({k \in 1..Len(guessWords) :
        classify(guessWords[k], errWords, origWords) \in {"original", "extra"}})

\* const selectedAllWrongWords = errorWords.length === 1 ? ... : ...
\* Variant: every error word must be among the selected tokens.
selectedEveryWrongWord(nErrorWords, nCorrect, nGuessWords) ==
    nCorrect = nErrorWords /\ nGuessWords = nCorrect

selectedAllWrongWords(nErrorWords, nCorrect, nGuessWords) ==
    IF nErrorWords = 1
    THEN nCorrect = 1 /\ nGuessWords = 1
    ELSE nCorrect >= 1 /\ nGuessWords = nCorrect

\* isCorrect of the branch errorType === 'word'
wordModeCorrect(guessWords, errWords, origWords) ==
    LET nCorrect == correctMatches(guessWords, errWords, origWords)
        hasCorrectWord == nCorrect > 0
        hasIncorrectWord == incorrectMatches(guessWords, errWords, origWords) > 0
        allSelectedAreWrong == hasCorrectWord /\ ~hasIncorrectWord
    IN  /\ allSelectedAreWrong
        /\ selectedAllWrongWords(Len(errWords), nCorrect, Len(guessWords))

\* isCorrect of the other branch: key words of the error sentence.
sentenceModeCorrect(guess, guessWords, sentence) ==
    LET lower == toLowerCase(sentence)
        keyWords == SelectSeq(split(lower), LAMBDA w : Len(w) > 3)
        matches == {k \in 1..Len(keyWords) :
                       \E g \in 1..Len(guessWords) :
                           \/ includes(keyWords[k], guessWords[g])
                           \/ includes(guessWords[g], keyWords[k])}
        sentenceMatch == includes(guess, SubSeq(lower, 1, Min(20, Len(lower))))
    IN  Cardinality(matches) >= 2 \/ Len(guessWords) >= 3 \/ sentenceMatch

\* --------------------------------------------------------------------------
\* DateIndexer.  A civil date is its number of days after 2025-10-27; an
\* instant is counted in hours.  A zone gives the browser's UTC offset on each
\* civil day: base hours, changed by delta from day changeDay on.
\* --------------------------------------------------------------------------

HoursPerDay == 24

utcOffset(zone, day) ==
    IF day >= zone.changeDay THEN zone.base + zone.delta ELSE zone.base

\* new Date(dateString + 'T00:00:00'): local midnight of the civil day
localMidnight(zone, day) == day * HoursPerDay - utcOffset(zone, day)

\* Variant: the days are counted in either direction from the first game date.
calculatePuzzleNumberEitherWay(zone, day) ==
    LET firstGameDate == localMidnight(zone, 0)
        targetDate == localMidnight(zone, day)
    IN  (Abs(targetDate - firstGameDate) \div HoursPerDay) + 1

\* Variant: a date before the first game date is not clamped.
calculatePuzzleNumberUnclamped(zone, day) ==
    LET firstGameDate == localMidnight(zone, 0)
        targetDate == localMidnight(zone, day)
    IN  ((targetDate - firstGameDate) \div HoursPerDay) + 1

calculatePuzzleNumber(zone, day) ==
    LET firstGameDate == localMidnight(zone, 0)
        targetDate == localMidnight(zone, day)
    IN  IF targetDate < firstGameDate THEN 1
        ELSE ((targetDate - firstGameDate) \div HoursPerDay) + 1

getValidGameDate(zone, day) ==
    IF localMidnight(zone, day) < localMidnight(zone, 0) THEN 0 ELSE day

\* setDate(getDate() + n - 1) moves the civil day; getDateString reads it back
calculateDateFromPuzzleNumber(puzzleNumber) == 0 + (puzzleNumber - 1)

\* The zone of the browser: no offset change in the days the model covers.
BrowserZone == [base |-> 2, changeDay |-> 0, delta |-> 0]

\* --------------------------------------------------------------------------
\* ArticleSelector
\* --------------------------------------------------------------------------

getArticleForDate(zone, config, day) ==
    IF config = None \/ Len(valueOf(config)) = 0 THEN None
    ELSE LET articles == valueOf(config)
             puzzleNumber == calculatePuzzleNumber(zone, day)
             articleIndex == (puzzleNumber - 1) % Len(articles)
         IN  Some(articles[articleIndex + 1])

\* --------------------------------------------------------------------------
\* The page: word elements of #article-content
\* --------------------------------------------------------------------------

\* displayArticle: one span.word-clickable per white-space separated word
displayArticle(extract) ==
    LET words == split(extract)
    IN  [k \in 1..Len(words) |-> [text |-> words[k], classes |-> {}]]

Terminators == {".", "!", "?"}

\* text.match(/[^.!?]+[.!?]+/g) || []
RECURSIVE sentenceScan(_, _, _)
sentenceScan(s, body, term) ==
    IF s = <<>>
    THEN IF body # <<>> /\ term # <<>> THEN <<body \o term>> ELSE <<>>
    ELSE IF Head(s) \in Terminators
         THEN IF body = <<>> THEN sentenceScan(Tail(s), <<>>, <<>>)
              ELSE sentenceScan(Tail(s), body, Append(term, Head(s)))
         ELSE IF term # <<>>
              THEN <<body \o term>> \o sentenceScan(Tail(s), <<Head(s)>>, <<>>)
              ELSE sentenceScan(Tail(s), Append(body, Head(s)), <<>>)

sentencesOf(text) == sentenceScan(text, <<>>, <<>>)

\* sentences.find(s => errorWords.some(ew => s.toLowerCase().includes(ew))) || ''
findErrorSentence(extract, errWords) ==
    LET sentences == sentencesOf(extract)
        hits == {k \in 1..Len(sentences) :
                    \E e \in 1..Len(errWords) :
                        includes(toLowerCase(sentences[k]), errWords[e])}
    IN  IF hits = {} THEN <<>>
        ELSE sentences[CHOOSE k \in hits : \A j \in hits : k <= j]

removeClass(dom, cls) ==
    [k \in 1..Len(dom) |-> [dom[k] EXCEPT !.classes = @ \ {cls}]]

\* clearHighlights
clearHighlights(dom) == removeClass(dom, "word-selected")

\* clearCorrectHighlights
clearCorrectHighlights(dom) == removeClass(dom, "word-correct")

\* clearSelection keeps in selectedWords the elements that carry word-correct
keepCorrect(selected, dom) ==
    SelectSeq(selected, LAMBDA i : "word-correct" \in dom[i].classes)

\* clearSelection hides the submit buttons unless a non-correct word is selected
displayAfterClear(selected, dom, display) ==
    IF \E k \in 1..Len(selected) : "word-correct" \notin dom[selected[k]].classes
    THEN display ELSE "none"

\* wordText.match(/[^\w]+$/)?.[0] || '' : the trailing run of non-word characters
RECURSIVE trailingPunctuation(_)
trailingPunctuation(s) ==
    IF s = <<>> \/ s[Len(s)] \notin NonWordChars THEN <<>>
    ELSE Append(trailingPunctuation(SubSeq(s, 1, Len(s) - 1)), s[Len(s)])

capitalize(w) == IF w = <<>> THEN w ELSE <<toUpperChar(Head(w))>> \o Tail(w)

\* The test of replaceWrongWordsWithCorrect for one error word
replaceTest(normalizedWord, errorWord) ==
    \/ normalizedWord = errorWord
    \/ /\ Len(normalizedWord) >= Len(errorWord) - 1
       /\ Len(normalizedWord) <= Len(errorWord) + 1
       /\ (includes(normalizedWord, errorWord) \/ includes(errorWord, normalizedWord))

\* replaceWrongWordsWithCorrect for one word element
replaceWord(el, errWords, origWords) ==
    LET wordText == trim(el.text)
        normalizedWord == toLowerCase(stripNonWord(wordText))
        hits == {i \in 1..Len(errWords) :
                    replaceTest(normalizedWord, toLowerCase(stripNonWord(errWords[i])))}
    IN  IF hits = {} \/ wordText = <<>> THEN el
        ELSE LET i == CHOOSE i \in hits : \A j \in hits : i <= j
                 punctuation == trailingPunctuation(wordText)
                 isCapitalized == wordText[1] = toUpperChar(wordText[1])
                 replacementWord == IF isCapitalized THEN capitalize(origWords[i])
                                    ELSE origWords[i]
             IN  [text |-> replacementWord \o punctuation,
                  classes |-> (el.classes \cup {"word-correct"}) \ {"word-selected"}]

replaceWrongWordsWithCorrect(dom, errWords, origWords) ==
    [k \in 1..Len(dom) |-> replaceWord(dom[k], errWords, origWords)]

\* --------------------------------------------------------------------------
\* State
\* --------------------------------------------------------------------------

maxTries == 3

VARIABLES
    initPending,          \* init() is still awaiting loadArticlesConfig()
    articlesConfig,       \* this.articlesConfig.articles, None before the fetch ends
    currentArticle,       \* title of this.currentArticle, or Null
    errorWords,           \* this.errorWords
    originalWords,        \* this.originalWords
    errorSentence,        \* this.errorSentence: None or a text
    errorType,            \* this.errorType
    triesRemaining,       \* this.triesRemaining
    selectedWords,        \* this.selectedWords: word elements, in click order
    lastGameResult,       \* this.lastGameResult: "win", "loss" or Null
    selectedDate,         \* this.selectedDate: None or a civil day
    completions,          \* this.completions: the stored records, by civil day
    now,                  \* the clock new Date() reads in markCompleted
    dom,                  \* the word elements of #article-content
    submitDisabled,       \* #submit-guess-btn.disabled
    submitDisplay,        \* #submit-buttons style.display
    timers,               \* pending setTimeout callbacks of markWordsAsWrong
    loadingDisplay,       \* #loading style.display
    served,               \* the "articles" list of articles-config.json on the server
    probe,                \* a call of one of the pure functions: its arguments
                          \* and, once it has returned, its result
    ev                    \* the handler that ran last: what it started from,
                          \* what it decided and what it showed the player

vars == <<initPending, articlesConfig, currentArticle, errorWords, originalWords,
          errorSentence, errorType, triesRemaining, selectedWords, lastGameResult,
          selectedDate, completions, now, dom, submitDisabled, submitDisplay,
          timers, loadingDisplay, served, probe, ev>>

\* What loadArticlesConfig can leave in articlesConfig: the fetched list, or
\* the empty list after a failed fetch.
ConfigOutcomes == {Some(served), Some(<<>>)}

\* No call of a pure function is being followed.
NoProbe == [fn |-> "none"]

\* The variables of the game, which a call of a pure function leaves alone.
gameVars == <<initPending, articlesConfig, currentArticle, errorWords,
              originalWords, errorSentence, errorType, triesRemaining,
              selectedWords, lastGameResult, selectedDate, completions, now,
              dom, submitDisabled, submitDisplay, timers, loadingDisplay, served,
              ev>>

\* The fields the constructor assigns, no completions stored yet.
fieldsAfterConstructor ==
    /\ initPending = TRUE
    /\ articlesConfig = None
    /\ currentArticle = Null
    /\ errorWords = <<>>
    /\ originalWords = <<>>
    /\ errorSentence = None
    /\ errorType = Null
    /\ triesRemaining = 3
    /\ selectedWords = <<>>
    /\ lastGameResult = Null
    /\ selectedDate = None
    /\ completions = [d \in {} |-> Null]
    /\ now = 0
    /\ dom = <<>>
    /\ submitDisabled = FALSE
    /\ submitDisplay = "none"
    /\ timers = 0
    /\ loadingDisplay = "block"
    /\ ev = [op |-> "other", verdict |-> "-", shown |-> "-", guessWords |-> <<>>,
             tries0 |-> 3, result0 |-> Null, completions0 |-> [d \in {} |-> Null],
             selection0 |-> <<>>]

\* loadCompletions() with nothing stored: {}
NoRecords == [d \in {} |-> Null]

\* What a handler leaves in ev.  op is "load", "submit", "archive" or "random"
\* for the handlers the properties speak about and "other" for the rest;
\* shown is the message, modal title or list the handler put on the page.
Event(op, verdict, shown, guessWords) ==
    [op |-> op, verdict |-> verdict, shown |-> shown, guessWords |-> guessWords,
     tries0 |-> triesRemaining, result0 |-> lastGameResult,
     completions0 |-> completions,
     selection0 |-> IF op = "submit" THEN selectedWords ELSE <<>>]

Other == Event("other", "-", "-", <<>>)

\* constructor(): the fields as assigned, no completions stored yet
Init ==
    /\ fieldsAfterConstructor
    /\ served = Articles
    /\ probe = NoProbe

\* --------------------------------------------------------------------------
\* loadDailyGame(dateString), with resetGameState
\* --------------------------------------------------------------------------

\* The error tracking loadDailyGame derives from the saved article.
\* savedArticle.<name>: the value of the key, None (undefined) without it
field(article, name) ==
    IF name \in DOMAIN article THEN Some(article[name]) ELSE None

\* savedArticle.replacements && savedArticle.replacements.length > 0
hasReplacements(article) ==
    "replacements" \in DOMAIN article /\ Len(article.replacements) > 0

\* .toLowerCase() of a wrongWord or originalWord that is not there: a
\* TypeError, which the catch of loadDailyGame turns into its alert
loadThrows(article) ==
    /\ ~hasReplacements(article)
    /\ \/ field(article, "wrongWord") = None
       \/ field(article, "originalWord") = None

\* this.errorWords as the load assigns it; on the way to the TypeError it is
\* assigned when it is originalWord alone that is missing
errorWordsOf(article) ==
    IF hasReplacements(article)
    THEN [k \in 1..Len(article.replacements) |->
             toLowerCase(article.replacements[k].replacement)]
    ELSE IF field(article, "wrongWord") = None THEN <<>>
    ELSE <<toLowerCase(article.wrongWord)>>

\* this.originalWords as the load assigns it
originalWordsOf(article) ==
    IF hasReplacements(article)
    THEN [k \in 1..Len(article.replacements) |->
             toLowerCase(article.replacements[k].original)]
    ELSE IF loadThrows(article) THEN <<>>
    ELSE <<toLowerCase(article.originalWord)>>

\* savedArticle.errorType || 'word'
errorTypeOf(article) ==
    IF field(article, "errorType") = None THEN "word" ELSE article.errorType

\* resetGameState as it leaves the word elements: no selection and no
\* correct highlight (the elements stay until displayArticle replaces them)
resetDom(d) == clearCorrectHighlights(clearHighlights(d))

\* Variant: the tries of the previous session are carried into the new one.
triesCarriedOver == triesRemaining

\* this.triesRemaining = this.maxTries
resetTries == maxTries

\* Variant: the loading indicator stays on the page.
showLoadingStuck(show) == "block"

\* showLoading(show): the display of #loading
showLoading(show) == IF show THEN "block" ELSE "none"

loadDailyGame(config, dateArg) ==
    LET rawDate == IF dateArg = None THEN Today ELSE valueOf(dateArg)
        targetDate == getValidGameDate(BrowserZone, rawDate)
        found == getArticleForDate(BrowserZone, config, targetDate)
        savedArticle == valueOf(found)
    IN  /\ triesRemaining' = resetTries
        /\ selectedWords' = <<>>
        /\ submitDisabled' = FALSE
        /\ submitDisplay' = "none"
        /\ lastGameResult' = Null
        /\ selectedDate' = Some(targetDate)
        /\ loadingDisplay' = showLoading(FALSE)
        /\ IF found = None
           THEN /\ currentArticle' = Null
                /\ errorWords' = <<>>
                /\ originalWords' = <<>>
                /\ errorSentence' = None
                /\ errorType' = Null
                /\ dom' = resetDom(dom)
                /\ ev' = Event("load", "-", "No Articles Available", <<>>)
           ELSE IF loadThrows(savedArticle)
           THEN /\ currentArticle' = savedArticle.title
                /\ errorWords' = errorWordsOf(savedArticle)
                /\ originalWords' = originalWordsOf(savedArticle)
                /\ errorSentence' = None
                /\ errorType' = Null
                /\ dom' = resetDom(dom)
                /\ ev' = Event("load", "throw",
                               "Failed to load game. Please try again.", <<>>)
           ELSE /\ currentArticle' = savedArticle.title
                /\ errorWords' = errorWordsOf(savedArticle)
                /\ originalWords' = originalWordsOf(savedArticle)
                /\ errorType' = errorTypeOf(savedArticle)
                /\ errorSentence' = Some(findErrorSentence(savedArticle.extract,
                                                           errorWordsOf(savedArticle)))
                /\ dom' = displayArticle(savedArticle.extract)
                /\ ev' = Event("load", "-", "article", <<>>)

\* init(): the configuration fetch ends (loaded, or failed and replaced by an
\* empty list), then today's puzzle is loaded.
InitLoaded ==
    /\ initPending
    /\ \E config \in ConfigOutcomes :
        /\ articlesConfig' = config
        /\ loadDailyGame(config, None)
    /\ initPending' = FALSE
    /\ UNCHANGED <<served, probe, completions, now, timers>>

\* --------------------------------------------------------------------------
\* Word selection
\* --------------------------------------------------------------------------

\* showFloatingSubmit
showFloatingSubmit(selected) == IF Len(selected) = 0 THEN "none" ELSE "flex"

\* selectWord(wordElement): a click on word element i toggles its selection
selectWord(i) ==
    /\ i \in 1..Len(dom)
    /\ IF Len(trim(dom[i].text)) = 0
       THEN UNCHANGED <<dom, selectedWords, submitDisplay>>
       ELSE /\ IF "word-selected" \in dom[i].classes
               THEN /\ dom' = [dom EXCEPT ![i].classes = @ \ {"word-selected"}]
                    /\ selectedWords' = SelectSeq(selectedWords, LAMBDA el : el # i)
               ELSE /\ Len(selectedWords) < MaxSelected
                    /\ dom' = [dom EXCEPT ![i].classes = @ \cup {"word-selected"}]
                    /\ selectedWords' = Append(selectedWords, i)
            /\ submitDisplay' = showFloatingSubmit(selectedWords')
    /\ ev' = Other
    /\ UNCHANGED <<served, probe, loadingDisplay, initPending, articlesConfig,
                   currentArticle, errorWords,
                   originalWords, errorSentence, errorType, triesRemaining,
                   lastGameResult, selectedDate, completions, now, submitDisabled,
                   timers>>

SelectWord == \E i \in 1..Len(dom) : selectWord(i)

\* clearSelection(), from the Clear button
ClearSelection ==
    /\ dom' = clearHighlights(dom)
    /\ selectedWords' = keepCorrect(selectedWords, dom')
    /\ submitDisplay' = displayAfterClear(selectedWords', dom', submitDisplay)
    /\ ev' = Other
    /\ UNCHANGED <<served, probe, loadingDisplay, initPending, articlesConfig,
                   currentArticle, errorWords,
                   originalWords, errorSentence, errorType, triesRemaining,
                   lastGameResult, selectedDate, completions, now, submitDisabled,
                   timers>>

\* --------------------------------------------------------------------------
\* submitGuess() and what it calls
\* --------------------------------------------------------------------------

\* Variant: the records object is replaced by one that holds the new record
\* alone.
markCompletedAlone(records, dateString, instant) ==
    [d \in {dateString} |-> [completed |-> TRUE, completedAt |-> instant]]

\* markCompleted(dateString)
markCompleted(records, dateString, instant) ==
    [d \in DOMAIN records \cup {dateString} |->
        IF d = dateString THEN [completed |-> TRUE, completedAt |-> instant]
        ELSE records[d]]

\* isCompleted(dateString)
isCompleted(records, dateString) ==
    dateString \in DOMAIN records /\ records[dateString].completed

\* for (let i = 0; i < 365; i++)
StreakDays == 365

\* Variant: a day without a record ends the walk, today as well.
breakStepNoGrace(records, today) ==
    LET gaps == {i \in 0..(StreakDays - 1) : ~isCompleted(records, today - i)}
    IN  IF gaps = {} THEN StreakDays
        ELSE CHOOSE i \in gaps : \A j \in gaps : i <= j

\* The step at which the loop of calculateStreak ends: the first i > 0 whose
\* day has no record (break), or 365 when it runs to its end.
breakStep(records, today) ==
    LET gaps == {i \in 1..(StreakDays - 1) : ~isCompleted(records, today - i)}
    IN  IF gaps = {} THEN StreakDays
        ELSE CHOOSE i \in gaps : \A j \in gaps : i <= j

\* calculateStreak(), today being the civil day new Date() is in: streak++ at
\* every step before the break whose day has a record
calculateStreak(records, today) ==
    Cardinality({i \in 0..(breakStep(records, today) - 1) :
                    isCompleted(records, today - i)})

\* const dateString = this.selectedDate || this.currentDateString
completionDate == IF selectedDate = None THEN Today ELSE valueOf(selectedDate)

\* Variant: a record is written for a loss as well.
recordEveryOutcome(records, isWin, dateString, instant) ==
    markCompleted(records, dateString, instant)

\* showCompletionModal: if (isWin) markCompleted(dateString)
recordOutcome(records, isWin, dateString, instant) ==
    IF isWin THEN markCompleted(records, dateString, instant) ELSE records

\* Variant: the result is recorded as a loss whatever the verdict.
resultAlwaysLoss(isWin) == "loss"

\* this.lastGameResult = isWin ? 'win' : 'loss'
resultOf(isWin) == IF isWin THEN "win" ELSE "loss"

\* Variant: the empty guess goes on to validation.
neverEmptyGuess(guess) == FALSE

\* if (!guess)
isEmptyGuess(guess) == guess = <<>>

\* this.triesRemaining--
triesAfterWrongGuess(tries) == tries - 1

\* Variant: the game is over with one try still left.
outOfTriesEarly(tries) == tries <= 1

\* Variant: the game is over only below zero tries.
outOfTriesLate(tries) == tries < 0

\* if (this.triesRemaining <= 0) showGameOver()
outOfTries(tries) == tries <= 0

\* markWordsAsWrong, before its timer fires: the selected elements lose
\* word-selected.  (They also get word-wrong, a class that only styles the
\* word: no handler reads it, and the model leaves it out.)
markWordsAsWrong(d, selected) ==
    [k \in 1..Len(d) |->
        IF \E j \in 1..Len(selected) : selected[j] = k
        THEN [d[k] EXCEPT !.classes = @ \ {"word-selected"}]
        ELSE d[k]]

\* if (!guess): the prompt, and nothing else
EmptyGuess ==
    /\ ev' = Event("submit", "empty", "select-words-first", <<>>)
    /\ UNCHANGED <<served, probe, loadingDisplay, initPending, articlesConfig,
                   currentArticle, errorWords,
                   originalWords, errorSentence, errorType, triesRemaining,
                   selectedWords, lastGameResult, selectedDate, completions, now,
                   dom, submitDisabled, submitDisplay, timers>>

\* this.errorSentence.toLowerCase() on null: the handler ends in a TypeError
\* before it has changed anything
SubmitThrows(guessWords) ==
    /\ ev' = Event("submit", "throw", "-", guessWords)
    /\ UNCHANGED <<served, probe, loadingDisplay, initPending, articlesConfig,
                   currentArticle, errorWords,
                   originalWords, errorSentence, errorType, triesRemaining,
                   selectedWords, lastGameResult, selectedDate, completions, now,
                   dom, submitDisabled, submitDisplay, timers>>

\* isCorrect: showCompletionModal(correctAnswer), isWin = true.  The clock is
\* read by markCompleted alone and has moved on by its next reading.
CorrectGuess(guessWords) ==
    /\ now < MaxWins
    /\ lastGameResult' = resultOf(TRUE)
    /\ completions' = recordOutcome(completions, TRUE, completionDate, now)
    /\ now' = now + 1
    /\ dom' = clearHighlights(
                  replaceWrongWordsWithCorrect(dom, errorWords, originalWords))
    /\ selectedWords' = keepCorrect(selectedWords, dom')
    /\ submitDisplay' = displayAfterClear(selectedWords', dom', "none")
    /\ ev' = Event("submit", "win", "Correct!", guessWords)
    /\ UNCHANGED <<served, probe, loadingDisplay, initPending, articlesConfig,
                   currentArticle, errorWords,
                   originalWords, errorSentence, errorType, triesRemaining,
                   selectedDate, submitDisabled, timers>>

\* the else branch: a try is removed; at no tries left, showGameOver(), which
\* ends in showCompletionModal(answerMessage, false)
WrongGuess(guessWords) ==
    /\ timers < MaxTimers
    /\ triesRemaining' = triesAfterWrongGuess(triesRemaining)
    /\ timers' = timers + 1
    /\ IF outOfTries(triesRemaining')
       THEN /\ dom' = clearHighlights(
                          replaceWrongWordsWithCorrect(
                              markWordsAsWrong(dom, selectedWords),
                              errorWords, originalWords))
            /\ lastGameResult' = resultOf(FALSE)
            /\ completions' = recordOutcome(completions, FALSE, completionDate, now)
            /\ selectedWords' = keepCorrect(selectedWords, dom')
            /\ submitDisplay' = displayAfterClear(selectedWords', dom', "none")
            /\ submitDisabled' = TRUE
            /\ ev' = Event("submit", "incorrect", "Game Over", guessWords)
       ELSE /\ dom' = markWordsAsWrong(dom, selectedWords)
            /\ submitDisplay' = "none"
            /\ ev' = Event("submit", "incorrect", "Wrong", guessWords)
            /\ UNCHANGED <<lastGameResult, completions, selectedWords, submitDisabled>>
    /\ UNCHANGED <<served, probe, loadingDisplay, initPending, articlesConfig,
                   currentArticle, errorWords,
                   originalWords, errorSentence, errorType, selectedDate, now>>

\* submitGuess(): a click on the submit button, which a disabled button ignores
SubmitGuess ==
    /\ ~submitDisabled
    /\ LET guess == guessOf(selectedWords, dom)
           guessWords == guessWordsOf(guess)
       IN  IF isEmptyGuess(guess) THEN EmptyGuess
           ELSE IF errorType = "word"
                THEN IF wordModeCorrect(guessWords, errorWords, originalWords)
                     THEN CorrectGuess(guessWords)
                     ELSE WrongGuess(guessWords)
                ELSE IF errorSentence = None THEN SubmitThrows(guessWords)
                ELSE IF sentenceModeCorrect(guess, guessWords, valueOf(errorSentence))
                     THEN CorrectGuess(guessWords)
                     ELSE WrongGuess(guessWords)

\* The callback markWordsAsWrong scheduled, 2 seconds later: clearSelection()
\* on this.selectedWords as it is when the timer fires.
TimerFires ==
    /\ timers > 0
    /\ timers' = timers - 1
    /\ dom' = clearHighlights(dom)
    /\ selectedWords' = keepCorrect(selectedWords, dom')
    /\ submitDisplay' = displayAfterClear(selectedWords', dom', submitDisplay)
    /\ ev' = Other
    /\ UNCHANGED <<served, probe, loadingDisplay, initPending, articlesConfig,
                   currentArticle, errorWords,
                   originalWords, errorSentence, errorType, triesRemaining,
                   lastGameResult, selectedDate, completions, now, submitDisabled>>

\* --------------------------------------------------------------------------
\* Archive and random puzzle
\* --------------------------------------------------------------------------

\* The data-date of the archive items showArchiveModal renders, newest first
archiveItems(config) ==
    [k \in 1..Len(valueOf(config)) |->
        calculateDateFromPuzzleNumber(Len(valueOf(config)) - k + 1)]

\* showArchiveModal(): one item per article; it changes the archive modal
\* alone.  Before the configuration is there, this.articlesConfig.articles
\* throws.
ShowArchiveModal ==
    /\ ev' = IF articlesConfig = None
             THEN Event("archive", "throw", "-", <<>>)
             ELSE Other
    /\ UNCHANGED <<served, probe, loadingDisplay, initPending, articlesConfig,
                   currentArticle, errorWords,
                   originalWords, errorSentence, errorType, triesRemaining,
                   selectedWords, lastGameResult, selectedDate, completions, now,
                   dom, submitDisabled, submitDisplay, timers>>

\* The click handler of an item of the list showArchiveModal has rendered:
\* closeArchiveModal(), loadDailyGame(date)
ArchiveItemClick ==
    /\ articlesConfig # None
    /\ \E k \in 1..Len(archiveItems(articlesConfig)) :
           loadDailyGame(articlesConfig, Some(archiveItems(articlesConfig)[k]))
    /\ UNCHANGED <<served, probe, initPending, articlesConfig, completions, now, timers>>

\* playRandomArticle(): a puzzle number between 1 and today's
PlayRandomArticle ==
    /\ IF articlesConfig = None \/ Len(valueOf(articlesConfig)) = 0
       THEN /\ ev' = Event("random", "-", "no-articles-alert", <<>>)
            /\ UNCHANGED <<currentArticle, errorWords, originalWords, errorSentence,
                           errorType, triesRemaining, selectedWords, lastGameResult,
                           selectedDate, dom, submitDisabled, submitDisplay,
                           loadingDisplay>>
       ELSE \E randomPuzzleNumber \in
                1..calculatePuzzleNumber(BrowserZone,
                                         getValidGameDate(BrowserZone, Today)) :
                loadDailyGame(articlesConfig,
                              Some(calculateDateFromPuzzleNumber(randomPuzzleNumber)))
    /\ UNCHANGED <<served, probe, initPending, articlesConfig, completions, now, timers>>

Next ==
    \/ InitLoaded
    \/ SelectWord
    \/ ClearSelection
    \/ SubmitGuess
    \/ TimerFires
    \/ ShowArchiveModal
    \/ ArchiveItemClick
    \/ PlayRandomArticle

Spec == Init /\ [][Next]_vars

\* --------------------------------------------------------------------------
\* Properties
\* --------------------------------------------------------------------------

\* The last handler was submitGuess.
Submitted == ev.op = "submit"

\* The last handler was a submitGuess that reached the verdict.
Judged == Submitted /\ ev.verdict \in {"win", "incorrect"}

\* The session was in progress, or terminal, when the last handler started.
WasInProgress == ev.result0 = Null

WasTerminal == ev.result0 \in {"win", "loss"}

\* C1: once the session is Won or Lost, a further submitGuess changes neither
\* triesRemaining nor lastGameResult nor the completion records.
C1_TerminalSubmitIsNoOp ==
    (Submitted /\ WasTerminal) =>
        /\ triesRemaining = ev.tries0
        /\ lastGameResult = ev.result0
        /\ completions = ev.completions0

\* C2: an incorrect guess in an in-progress session takes exactly one try; with
\* 3 or 2 tries the session stays in progress, with 1 try it becomes Lost and
\* the game-over modal is shown; and Lost is entered with no tries left only.
C2_ThreeIncorrectGuessesLose ==
    /\ (Submitted /\ ev.verdict = "incorrect" /\ WasInProgress) =>
          /\ triesRemaining = ev.tries0 - 1
          /\ ev.tries0 \in {2, 3} =>
                lastGameResult = Null /\ ev.shown # "Game Over" /\ ~submitDisabled
          /\ ev.tries0 = 1 => lastGameResult = "loss" /\ ev.shown = "Game Over"
    /\ lastGameResult = "loss" => triesRemaining = 0

C2_Witness ==
    /\ Submitted /\ ev.verdict = "incorrect" /\ WasInProgress
    /\ ev.tries0 = 1 /\ triesRemaining = 0 /\ lastGameResult = "loss"

\* C3: a winning guess in an in-progress session, whatever the tries left,
\* makes the session Won and leaves triesRemaining as it was.
C3_WinGoesToWon ==
    (Submitted /\ ev.verdict = "win" /\ WasInProgress) =>
        /\ lastGameResult = "win"
        /\ triesRemaining = ev.tries0
        /\ ev.shown = "Correct!"

C3_Witness ==
    /\ Submitted /\ ev.verdict = "win" /\ WasInProgress
    /\ ev.tries0 = 1 /\ lastGameResult = "win"

\* C4: triesRemaining stays between 0 and maxTries.
C4_TriesWithinBudget == 0 <= triesRemaining /\ triesRemaining <= maxTries

C4_Witness == triesRemaining = 0 /\ Submitted

\* C5: a submit with nothing selected shows the prompt and changes nothing:
\* no try is taken and the session status stays.
C5_EmptyGuessRejected ==
    (Submitted /\ ev.selection0 = <<>>) =>
        /\ ev.verdict = "empty"
        /\ ev.shown = "select-words-first"
        /\ triesRemaining = ev.tries0
        /\ lastGameResult = ev.result0
        /\ completions = ev.completions0
        /\ selectedWords = <<>>

C5_Witness ==
    /\ Submitted /\ ev.selection0 = <<>> /\ ev.verdict = "empty"
    /\ currentArticle # Null /\ triesRemaining = 2

\* The record a win writes at the given instant.
WinRecord(instant) == [completed |-> TRUE, completedAt |-> instant]

\* The last handler took the session from in progress to Won or Lost.
BecameTerminal == Submitted /\ WasInProgress /\ lastGameResult # Null

C7_RecordIsWriteOnce ==
    \A d \in DOMAIN ev.completions0 :
        d \in DOMAIN completions /\ completions[d] = ev.completions0[d]

\* The selected tokens of the last guess that count as error words.
GuessCorrectMatches == correctMatches(ev.guessWords, errorWords, originalWords)

GuessIncorrectMatches == incorrectMatches(ev.guessWords, errorWords, originalWords)

\* The puzzle has two distinct error words and the last guess selected one
\* token, which is one of them.
OneOfTwoErrorWords ==
    /\ Judged /\ errorType = "word"
    /\ Len(errorWords) = 2 /\ errorWords[1] # errorWords[2]
    /\ Len(ev.guessWords) = 1
    /\ \E k \in 1..2 : ev.guessWords[1] = toLowerCase(errorWords[k])

\* C8 as stated: with two distinct error words, a guess of only one of them
\* is Incorrect.
C8_OneOfTwoIsIncorrect == OneOfTwoErrorWords => ev.verdict = "incorrect"

\* C8: with two distinct error words, a guess of only one of them (and nothing
\* else) is a Win; with several error words a guess wins exactly when it has
\* no incorrect match and every selected token, at least one, is an error word.
C8_OneOfTwoIsWin ==
    /\ OneOfTwoErrorWords => ev.verdict = "win"
    /\ (Judged /\ errorType = "word" /\ Len(errorWords) > 1) =>
          (ev.verdict = "win" <=>
              /\ GuessIncorrectMatches = 0
              /\ GuessCorrectMatches >= 1
              /\ GuessCorrectMatches = Len(ev.guessWords))

C8_Witness == OneOfTwoErrorWords /\ WasInProgress /\ lastGameResult = "win"

\* The puzzle has one error word and every selected token of the last guess,
\* at least one, is an instance of it.
InstancesOfTheErrorWord ==
    /\ Judged /\ errorType = "word"
    /\ Len(errorWords) = 1
    /\ Len(ev.guessWords) >= 1
    /\ \A k \in 1..Len(ev.guessWords) :
          ev.guessWords[k] = toLowerCase(errorWords[1])

\* C9: with one error word, a guess whose tokens are all instances of it is a
\* Win, whatever the number of instances selected.
C9_AnyInstancesWin == InstancesOfTheErrorWord => ev.verdict = "win"

\* A selected token of the last guess is one of the original words.
SelectedAnOriginalWord ==
    /\ Judged /\ errorType = "word"
    /\ \E k \in 1..Len(ev.guessWords) : \E j \in 1..Len(originalWords) :
          ev.guessWords[k] = toLowerCase(originalWords[j])

\* C10: a guess that selects the original (correct) word is Incorrect, also
\* when the original word and the error word are near-substrings.
C10_OriginalWordIsIncorrect == SelectedAnOriginalWord => ev.verdict = "incorrect"

\* The puzzle has one error word and the last guess selected one token, an
\* instance of it, and nothing else.
SelectedTheOneWrongWord ==
    /\ Judged /\ errorType = "word"
    /\ Len(errorWords) = 1
    /\ Len(ev.selection0) = 1
    /\ ev.guessWords = <<toLowerCase(stripNonWord(errorWords[1]))>>

\* C11: in a puzzle with one error word, the guess of exactly the one wrong
\* word token is a Win.
C11_TheOneWrongWordWins ==
    SelectedTheOneWrongWord => ev.verdict = "win" /\ lastGameResult = "win"

C11_Witness ==
    /\ SelectedTheOneWrongWord /\ WasInProgress
    /\ ev.selection0 = <<3>> /\ lastGameResult = "win"

\* The last guess selected two tokens: an error word, and a word that matches
\* neither an error word nor a correct word.
WrongWordPlusExtra ==
    /\ Judged /\ errorType = "word"
    /\ Len(ev.guessWords) = 2
    /\ \E k, j \in 1..2 :
          /\ k # j
          /\ \E e \in 1..Len(errorWords) :
                ev.guessWords[k] = toLowerCase(stripNonWord(errorWords[e]))
          /\ ~matchesError(ev.guessWords[j], normalizeWords(errorWords))
          /\ ~matchesOriginal(ev.guessWords[j], normalizeWords(originalWords))

\* C12: the wrong word together with one token that matches neither list is
\* Incorrect: the extra token counts as an incorrect match.
C12_ExtraWordIsIncorrect ==
    WrongWordPlusExtra =>
        /\ ev.verdict = "incorrect"
        /\ GuessIncorrectMatches = 1
        /\ GuessCorrectMatches = 1

C12_Witness ==
    /\ WrongWordPlusExtra /\ WasInProgress
    /\ triesRemaining = ev.tries0 - 1

\* --------------------------------------------------------------------------
\* The error-match test on its own: errorWordTest called with every pair of
\* words of up to MaxWordLen letters
\* --------------------------------------------------------------------------

ProbeLetters == {"a", "b"}

ProbeWords == UNION {[1..n -> ProbeLetters] : n \in 1..MaxWordLen}

InitMatch ==
    /\ fieldsAfterConstructor
    /\ served = Articles
    /\ probe \in {[fn |-> "errorWordTest", t |-> t, e |-> e, out |-> None] :
                     t \in ProbeWords, e \in ProbeWords}

CallErrorWordTest ==
    /\ probe.fn = "errorWordTest" /\ probe.out = None
    /\ probe' = [probe EXCEPT !.out = Some(errorWordTest(probe.t, probe.e))]
    /\ UNCHANGED gameVars

NextMatch == CallErrorWordTest

SpecMatch == InitMatch /\ [][NextMatch]_vars

\* errorWordTest has returned.
MatchTested == probe.fn = "errorWordTest" /\ probe.out # None

\* One of the two words is a substring of the other.
OneContainsTheOther == includes(probe.t, probe.e) \/ includes(probe.e, probe.t)

InitParis ==
    /\ fieldsAfterConstructor
    /\ served = <<ArticleParis>>
    /\ probe = NoProbe

\* The handlers of one visit to the daily puzzle: the load, the word clicks,
\* Clear, Submit and the timer; the archive and the random puzzle are left out.
NextParis ==
    \/ InitLoaded
    \/ SelectWord
    \/ ClearSelection
    \/ SubmitGuess
    \/ TimerFires

SpecParis == InitParis /\ [][NextParis]_vars

\* The text on the page: the word elements, one space between them.
displayedText == join([k \in 1..Len(dom) |-> dom[k].text])

\* The last guess selected the one token at place k of the Paris puzzle, the
\* session being in progress.
GuessedParisToken(k) ==
    /\ Judged /\ WasInProgress
    /\ currentArticle = "Paris"
    /\ ev.selection0 = <<k>>

\* C14: the puzzle made from "Paris is the capital of France." with capital ->
\* largest shows "Paris is the largest of France."; the one token "largest" is
\* a Win, the one token "France." is Incorrect and takes one try.
C14_ParisEndToEnd ==
    /\ (ev.op = "load" /\ currentArticle = "Paris") =>
          displayedText = <<"P","a","r","i","s"," ","i","s"," ","t","h","e"," ",
                          "l","a","r","g","e","s","t"," ","o","f"," ","F","r","a","n","c","e",".">>
    /\ GuessedParisToken(4) =>
          /\ ev.guessWords = <<<<"l","a","r","g","e","s","t">>>>
          /\ ev.verdict = "win" /\ lastGameResult = "win"
          /\ triesRemaining = ev.tries0
    /\ GuessedParisToken(6) =>
          /\ ev.guessWords = <<<<"f","r","a","n","c","e">>>>
          /\ ev.verdict = "incorrect"
          /\ triesRemaining = ev.tries0 - 1

C14_Witness ==
    /\ GuessedParisToken(6) /\ ev.verdict = "incorrect"
    /\ ev.tries0 = 3 /\ triesRemaining = 2

\* --------------------------------------------------------------------------
\* calculateStreak on its own.  The records of the MaxRecent most recent days
\* are any subset of them; before them there is no record, or a run of
\* records that ends one day short of, at, or one day past the 365th day.
\* --------------------------------------------------------------------------

\* The day calculateStreak is called on: late enough for 366 days of play.
StreakToday == StreakDays + 1

\* The records markCompleted has written for a set of days.
recordsOn(days) == [d \in days |-> [completed |-> TRUE, completedAt |-> 0]]

RecentDays == {StreakToday - k : k \in 0..(MaxRecent - 1)}

OlderRuns ==
    {{}} \cup {{StreakToday - k : k \in MaxRecent..n} :
                  n \in (StreakDays - 2)..StreakDays}

InitStreak ==
    /\ fieldsAfterConstructor
    /\ served = Articles
    /\ probe \in {[fn |-> "calculateStreak", today |-> StreakToday,
                   days |-> recent \cup older, out |-> None] :
                     recent \in SUBSET RecentDays, older \in OlderRuns}

CallCalculateStreak ==
    /\ probe.fn = "calculateStreak" /\ probe.out = None
    /\ probe' = [probe EXCEPT
                    !.out = Some(calculateStreak(recordsOn(probe.days), probe.today))]
    /\ UNCHANGED gameVars

NextStreak == CallCalculateStreak

SpecStreak == InitStreak /\ [][NextStreak]_vars

\* calculateStreak has returned.
StreakComputed == probe.fn = "calculateStreak" /\ probe.out # None

\* The day the count starts on: today, or yesterday when today has no record.
StreakStart == IF probe.today \in probe.days THEN probe.today ELSE probe.today - 1

\* The consecutive days with a record, from StreakStart backward, among the
\* days later than the given one.
RunAfter(oldest) ==
    Cardinality({k \in 0..(StreakDays + 1) :
        /\ StreakStart - k > oldest
        /\ \A j \in 0..k : (StreakStart - j) \in probe.days})

\* C15 as stated: the streak is the number of consecutive days with a record,
\* walking backward from today to the first day other than today without one.
C15_StreakIsTheWholeRun ==
    StreakComputed => valueOf(probe.out) = RunAfter(probe.today - StreakDays - 2)

\* C15: the streak is the number of consecutive days with a record, walking
\* backward from today to the first day other than today without one, or to
\* the 365th day of the walk (today - 364), where it ends; today without a
\* record counts 0 and does not end it; records for today, today-1 and
\* today-2 and none for today-3 give 3.
C15_StreakWithin365Days ==
    StreakComputed =>
        /\ valueOf(probe.out) = RunAfter(probe.today - StreakDays)
        /\ ({probe.today - k : k \in 0..2} \subseteq probe.days
                /\ (probe.today - 3) \notin probe.days) =>
              valueOf(probe.out) = 3

C15_Witness ==
    /\ StreakComputed
    /\ {probe.today - k : k \in 0..StreakDays} \subseteq probe.days
    /\ valueOf(probe.out) = StreakDays

\* --------------------------------------------------------------------------
\* The date functions on their own, in a browser whose zone keeps its UTC
\* offset or moves it by an hour, forward or back, on one of the days
\* --------------------------------------------------------------------------

DateZones ==
    {[base |-> b, changeDay |-> c, delta |-> dl] :
        b \in {-5, 2}, c \in (-MaxDay)..MaxDay, dl \in {-1, 0, 1}}

ProbeDays == (-MaxDay)..MaxDay

InitDates ==
    /\ fieldsAfterConstructor
    /\ served = Articles
    /\ probe \in
          {[fn |-> "calculatePuzzleNumber", zone |-> z, d1 |-> p[1], d2 |-> p[2],
            out |-> None] : z \in DateZones,
                            p \in {q \in ProbeDays \X ProbeDays : q[1] < q[2]}}
          \cup
          {[fn |-> "calculateDateFromPuzzleNumber", zone |-> z, n |-> n,
            out |-> None] : z \in DateZones, n \in 1..(MaxDay + 1)}

\* calculatePuzzleNumber of two dates, and calculateDateFromPuzzleNumber and
\* getValidGameDate of the first
CallCalculatePuzzleNumber ==
    /\ probe.fn = "calculatePuzzleNumber" /\ probe.out = None
    /\ LET n1 == calculatePuzzleNumber(probe.zone, probe.d1)
       IN  probe' = [probe EXCEPT !.out =
               Some([n1 |-> n1,
                     n2 |-> calculatePuzzleNumber(probe.zone, probe.d2),
                     back |-> calculateDateFromPuzzleNumber(n1),
                     valid |-> getValidGameDate(probe.zone, probe.d1)])]
    /\ UNCHANGED gameVars

\* calculateDateFromPuzzleNumber of a number, and calculatePuzzleNumber of
\* the date it returns
CallCalculateDateFromPuzzleNumber ==
    /\ probe.fn = "calculateDateFromPuzzleNumber" /\ probe.out = None
    /\ LET date == calculateDateFromPuzzleNumber(probe.n)
       IN  probe' = [probe EXCEPT !.out =
               Some([date |-> date,
                     back |-> calculatePuzzleNumber(probe.zone, date)])]
    /\ UNCHANGED gameVars

NextDates ==
    \/ CallCalculatePuzzleNumber
    \/ CallCalculateDateFromPuzzleNumber

SpecDates == InitDates /\ [][NextDates]_vars

\* calculatePuzzleNumber, calculateDateFromPuzzleNumber has returned.
NumberComputed == probe.fn = "calculatePuzzleNumber" /\ probe.out # None

DateComputed == probe.fn = "calculateDateFromPuzzleNumber" /\ probe.out # None

\* C16: for every date d on or after the first game date,
\* calculateDateFromPuzzleNumber(calculatePuzzleNumber(d)) = d.
C16_DateOfNumberOfDate ==
    (NumberComputed /\ probe.d1 >= 0) => valueOf(probe.out).back = probe.d1

\* C17: for every puzzle number n >= 1,
\* calculatePuzzleNumber(calculateDateFromPuzzleNumber(n)) = n.
C17_NumberOfDateOfNumber ==
    (DateComputed /\ probe.n >= 1) => valueOf(probe.out).back = probe.n

\* C18: for every date d on or after the first game date, the puzzle number
\* is the number of calendar days from the first game date to d plus one,
\* whatever changes of the UTC offset lie between them.
C18_NumberIsCalendarDaysPlusOne ==
    (NumberComputed /\ probe.d1 >= 0) => valueOf(probe.out).n1 = probe.d1 + 1

\* C19: the puzzle number never decreases with the date: for dates d1 < d2,
\* calculatePuzzleNumber(d2) >= calculatePuzzleNumber(d1).
C19_NumberIsMonotone ==
    (NumberComputed /\ probe.d1 < probe.d2) =>
        valueOf(probe.out).n2 >= valueOf(probe.out).n1

C19_Witness ==
    /\ NumberComputed /\ probe.d1 < 0 /\ probe.d2 > 0
    /\ valueOf(probe.out).n1 < valueOf(probe.out).n2

\* C20: the first game date has puzzle number 1, every date before it is
\* clamped to puzzle number 1 (and to the first game date by
\* getValidGameDate), and no puzzle number is below 1.
C20_NumberIsAtLeastOne ==
    NumberComputed =>
        /\ probe.d1 = 0 => valueOf(probe.out).n1 = 1
        /\ probe.d1 < 0 =>
              valueOf(probe.out).n1 = 1 /\ valueOf(probe.out).valid = 0
        /\ valueOf(probe.out).n1 >= 1 /\ valueOf(probe.out).n2 >= 1

C20_Witness ==
    /\ NumberComputed /\ probe.d1 < 0 /\ probe.zone.delta # 0
    /\ valueOf(probe.out).n1 = 1

\* --------------------------------------------------------------------------
\* getArticleForDate on its own: a configuration file of up to MaxArticles
\* articles, with or without a "scheduled" entry for the date, in a browser
\* of any of the zones
\* --------------------------------------------------------------------------

MaxArticles == 3

ConfiguredTitles == <<"A", "B", "C", "D">>

\* The "articles" array of articles-config.json
configuredArticles(length) == [k \in 1..length |-> [title |-> ConfiguredTitles[k]]]

\* The article a "scheduled" entry of the file names
ScheduledArticle == [title |-> "S"]

\* The configuration files: "scheduled" has no entry, or one for one day
SelectorConfigs ==
    {[articles |-> configuredArticles(n), scheduled |-> sch] :
        n \in 0..MaxArticles,
        sch \in {<<>>} \cup {<<d>> : d \in ProbeDays}}

InitSelector ==
    /\ fieldsAfterConstructor
    /\ served = Articles
    /\ probe \in {[fn |-> "getArticleForDate", zone |-> z, config |-> c,
                   day |-> d, out |-> None] :
                     z \in DateZones, c \in SelectorConfigs, d \in ProbeDays}

\* getArticleForDate of a date and of the date one list length later; of the
\* configuration it reads this.articlesConfig.articles and nothing else.
\* puzzleNumber is the number updateDailyInfo shows once the date is loaded.
CallGetArticleForDate ==
    /\ probe.fn = "getArticleForDate" /\ probe.out = None
    /\ LET config == Some(probe.config.articles)
       IN  probe' = [probe EXCEPT !.out =
               Some([article |-> getArticleForDate(probe.zone, config, probe.day),
                     afterPeriod |->
                         getArticleForDate(probe.zone, config,
                                           probe.day + Len(probe.config.articles)),
                     puzzleNumber |->
                         calculatePuzzleNumber(probe.zone,
                             getValidGameDate(probe.zone, probe.day))])]
    /\ UNCHANGED gameVars

NextSelector == CallGetArticleForDate

SpecSelector == InitSelector /\ [][NextSelector]_vars

\* getArticleForDate has returned.
ArticleSelected == probe.fn = "getArticleForDate" /\ probe.out # None

\* The file has a "scheduled" entry for the date asked for.
ScheduledForTheDay == probe.config.scheduled = <<probe.day>>

\* The article of the cyclic index, (puzzleNumber(date) - 1) mod length
CyclicArticle ==
    LET articles == probe.config.articles
        puzzleNumber == calculatePuzzleNumber(probe.zone, probe.day)
    IN  articles[((puzzleNumber - 1) % Len(articles)) + 1]

\* C21: with no scheduled entry for the date and a non-empty list, the
\* article selected is articles[(puzzleNumber(date) - 1) mod length], so that
\* over the dates from the first game on the articles repeat with period
\* length: the date length days later has the same article.
C21_CyclicWithPeriodLength ==
    (/\ ArticleSelected
     /\ ~ScheduledForTheDay
     /\ Len(probe.config.articles) > 0)
        => /\ valueOf(probe.out).article = Some(CyclicArticle)
           /\ probe.day >= 0 =>
                  valueOf(probe.out).afterPeriod = valueOf(probe.out).article

\* C22: a scheduled entry for the exact date takes precedence: the article
\* selected is the one the entry names, whatever the cyclic index gives.
C22_ScheduledTakesPrecedence ==
    (ArticleSelected /\ ScheduledForTheDay)
        => valueOf(probe.out).article = Some(ScheduledArticle)

\* --------------------------------------------------------------------------
\* Loading a puzzle
\* --------------------------------------------------------------------------

\* loadDailyGame has just run.
Loaded == ev.op = "load"

\* The configuration holds no article: the fetch failed or found no file
\* (loadArticlesConfig puts an empty list in its place), or the list is empty.
NoArticlesConfigured ==
    articlesConfig = None \/ Len(valueOf(articlesConfig)) = 0

\* C23: a load with no articles configured ends in the no-content state and
\* does not throw: no article is current, the loading indicator is cleared
\* and the no-articles message is on the page.
C23_NoArticlesIsNoContent ==
    (Loaded /\ NoArticlesConfigured)
        => /\ ev.verdict # "throw"
           /\ currentArticle = Null
           /\ loadingDisplay = "none"
           /\ ev.shown = "No Articles Available"

C23_Witness ==
    /\ Loaded
    /\ articlesConfig = Some(<<>>)
    /\ currentArticle = Null
    /\ ev.shown = "No Articles Available"

\* C24: every load starts a fresh session, whatever the session before it
\* was: all tries are back, nothing is selected, there is no result and the
\* submit button is enabled.
C24_LoadStartsFreshSession ==
    Loaded
        => /\ triesRemaining = maxTries
           /\ selectedWords = <<>>
           /\ lastGameResult = Null
           /\ ~submitDisabled

\* A load that followed a lost game, with tries used up and the button disabled
C24_Witness ==
    /\ Loaded
    /\ ev.result0 = "loss"
    /\ ev.tries0 = 0
    /\ triesRemaining = maxTries
    /\ ~submitDisabled

\* playRandomArticle ran while init() was still awaiting the configuration:
\* it found no configuration, alerted and returned, leaving nothing behind
\* that would load its puzzle later.
RequestDropped ==
    initPending /\ ev.op = "random" /\ ev.shown = "no-articles-alert"

\* The puzzle of the date the session is on
PuzzleOfSelectedDate ==
    getArticleForDate(BrowserZone, articlesConfig, valueOf(selectedDate))

\* C25: loads are last-write-wins.  A load requested while the fetch of an
\* earlier load is outstanding supersedes it, so the request is carried out
\* and not dropped; and the puzzle the session holds is the one of the load
\* requested last, never an older one put back by a late completion.
C25_LaterRequestSupersedes ==
    /\ ~RequestDropped
    /\ (~initPending /\ ~NoArticlesConfigured)
           => currentArticle = valueOf(PuzzleOfSelectedDate).title

\* The word elements that carry the word-selected highlight
Highlighted == {k \in 1..Len(dom) : "word-selected" \in dom[k].classes}

\* C26: selectedWords is a set, no word element stands in it twice, and it
\* holds exactly the word elements highlighted as selected.
C26_SelectionIsTheHighlightedSet ==
    /\ \A i, j \in 1..Len(selectedWords) :
           selectedWords[i] = selectedWords[j] => i = j
    /\ {selectedWords[j] : j \in 1..Len(selectedWords)} = Highlighted

\* --------------------------------------------------------------------------
\* The game with a configuration whose second article has neither
\* replacements nor wrongWord and originalWord
\* --------------------------------------------------------------------------

\* "old car", saved without its word fields
ArticleDraft ==
    [title |-> "Draft",
     extract |-> <<"o","l","d"," ","c","a","r">>]

InitDraft ==
    /\ fieldsAfterConstructor
    /\ served = <<ArticleCars, ArticleDraft>>
    /\ probe = NoProbe

SpecDraft == InitDraft /\ [][Next]_vars

\* The article title a message of loadDailyGame names.  Its messages are the
\* literals "No Articles Available" and "Failed to load game. Please try
\* again.": neither names one.
titleNamedBy(shown) == None

\* loadDailyGame has just run on an article without its word fields.
MisconfiguredLoaded ==
    /\ Loaded
    /\ ~NoArticlesConfigured
    /\ loadThrows(valueOf(PuzzleOfSelectedDate))

\* C27: the load of an article that lacks its correct and wrong word fields
\* shows a configuration error naming the article's title, and the puzzle
\* does not load: no article becomes current.
C27_MisconfiguredArticleIsReported ==
    MisconfiguredLoaded
        => /\ titleNamedBy(ev.shown) = Some(valueOf(PuzzleOfSelectedDate).title)
           /\ currentArticle = Null

\* --------------------------------------------------------------------------
\* The injection of the error on its own: devConfirmReplacement on the
\* extract of the article the developer mode holds
\* --------------------------------------------------------------------------

MaxTokens == 3

\* The words of the extracts: the word in both cases, a longer word that
\* holds it, and another word
InjectWords ==
    {<<"c","a","t">>, <<"C","a","t">>, <<"c","a","t","s">>, <<"d","o","g">>}

\* The words put in place of the original
InjectReplacements == {<<"p","i","g">>, <<"O","x">>}

\* An extract: the words, one space between them and a full stop at the end
extractOf(words) == join(words) \o <<".">>

RECURSIVE SeqsUpTo(_, _)
SeqsUpTo(S, n) ==
    IF n = 0 THEN {<<>>}
    ELSE LET shorter == SeqsUpTo(S, n - 1)
         IN  shorter \cup {Append(q, x) : q \in shorter, x \in S}

\* The word the developer clicked is a word of the extract.  occurrence is
\* what a replacement could carry to name one instance; devReplacements
\* holds {original, replacement} and no code reads more than these two.
InitInject ==
    /\ fieldsAfterConstructor
    /\ served = Articles
    /\ probe \in {[fn |-> "devConfirmReplacement", words |-> c[1],
                   original |-> c[1][c[2]], replacement |-> r, occurrence |-> o,
                   out |-> None] :
                     c \in {d \in SeqsUpTo(InjectWords, MaxTokens) \X (1..MaxTokens) :
                               d[2] <= Len(d[1])},
                     r \in InjectReplacements,
                     o \in {None} \cup {Some(n) : n \in 1..MaxTokens}}

CallDevConfirmReplacement ==
    /\ probe.fn = "devConfirmReplacement" /\ probe.out = None
    /\ probe' = [probe EXCEPT !.out =
           Some(devConfirmReplacement(extractOf(probe.words), probe.original,
                                      probe.replacement))]
    /\ UNCHANGED gameVars

NextInject == CallDevConfirmReplacement

SpecInject == InitInject /\ [][NextInject]_vars

\* devConfirmReplacement has returned.
Injected == probe.fn = "devConfirmReplacement" /\ probe.out # None

\* The places of the extract whose word is the original, whatever its case
Instances ==
    {k \in 1..Len(probe.words) :
        toLowerCase(probe.words[k]) = toLowerCase(probe.original)}

\* The k-th word of the text shown, without the full stop of the last
shownWord(k) ==
    LET w == split(valueOf(probe.out))[k]
    IN  IF k = Len(probe.words) THEN SubSeq(w, 1, Len(w) - 1) ELSE w

\* The word at place k was altered: it is now the replacement.
Altered(k) == toLowerCase(shownWord(k)) = toLowerCase(probe.replacement)

\* The word at place k is as it was in the source.
Unchanged(k) == shownWord(k) = probe.words[k]

\* The n-th instance of the original, from the left
instance(n) ==
    CHOOSE k \in Instances : Cardinality({j \in Instances : j <= k}) = n

\* C28: with occurrence = 2 on a text that holds the target word three
\* times, exactly the second instance is altered; the first and the third
\* stay as they were.
C28_OnlyTheSecondInstanceIsAltered ==
    (/\ Injected
     /\ probe.occurrence = Some(2)
     /\ Cardinality(Instances) = 3)
        => /\ Altered(instance(2))
           /\ Unchanged(instance(1))
           /\ Unchanged(instance(3))

C30_CleanupSparesLaterSelection ==
    [][TimerFires =>
          /\ \A k \in Highlighted :
                 /\ k \in 1..Len(dom')
                 /\ "word-selected" \in dom'[k].classes
                 /\ \E j \in 1..Len(selectedWords') : selectedWords'[j] = k
          /\ submitDisplay = "flex" => submitDisplay' = "flex"]_vars

\* --------------------------------------------------------------------------
\* Guesses that follow an incorrect guess
\* --------------------------------------------------------------------------

\* The session is in progress: no result yet and tries left.
InProgress == lastGameResult = Null /\ triesRemaining > 0

\* Word element k, submitted alone, is a winning guess of the puzzle.
WinsAlone(k) ==
    wordModeCorrect(guessWordsOf(guessOf(<<k>>, dom)), errorWords, originalWords)

\* C31: while the cleanup of an incorrect guess is still pending and the
\* session is in progress, a submit with nothing highlighted but one planted
\* wrong word is a Win: the words of the rejected guess are not part of it.
C31_WrongWordWinsRightAfterRejectedGuess ==
    [][(/\ timers > 0
        /\ InProgress
        /\ errorType = "word"
        /\ \E k \in 1..Len(dom) : Highlighted = {k} /\ WinsAlone(k)
        /\ SubmitGuess)
          => ev'.verdict = "win"]_vars

\* --------------------------------------------------------------------------
\* The verdict of submitGuess on its own: the words selected in a loaded
\* article, in word mode and in the other mode
\* --------------------------------------------------------------------------

MaxGuess == 3

\* "tall tower fell. red sun rose now.": an article saved in the older form,
\* with wrongWord and originalWord, whose errorType is not 'word'
ArticleTower ==
    [title |-> "Tower",
     extract |-> <<"t","a","l","l"," ","t","o","w","e","r"," ","f","e","l","l","."," ",
                   "r","e","d"," ","s","u","n"," ","r","o","s","e"," ","n","o","w",".">>,
     wrongWord |-> <<"t","a","l","l">>,
     originalWord |-> <<"l","o","w">>,
     errorType |-> "sentence"]

\* "big town here", saved by the developer mode with town -> old town
ArticleTown ==
    devSaveArticle("Town",
                   <<"b","i","g"," ","t","o","w","n"," ","h","e","r","e">>,
                   <<"t","o","w","n">>,
                   <<"o","l","d"," ","t","o","w","n">>)

VerdictArticles == {ArticleSun, ArticleTower, ArticleTown}

\* this.selectedWords: up to MaxGuess word elements of the article, each once
selectionsOf(article) ==
    {s \in SeqsUpTo(1..Len(displayArticle(article.extract)), MaxGuess) :
        /\ s # <<>>
        /\ \A i, j \in 1..Len(s) : s[i] = s[j] => i = j}

\* isCorrect as submitGuess computes it for a loaded article and a selection
isCorrect(article, selected) ==
    LET guess == guessOf(selected, displayArticle(article.extract))
        guessWords == guessWordsOf(guess)
    IN  IF errorTypeOf(article) = "word"
        THEN wordModeCorrect(guessWords, errorWordsOf(article),
                             originalWordsOf(article))
        ELSE sentenceModeCorrect(guess, guessWords,
                 findErrorSentence(article.extract, errorWordsOf(article)))

InitVerdict ==
    /\ fieldsAfterConstructor
    /\ served = Articles
    /\ probe \in UNION {{[fn |-> "submitGuess", article |-> a, selected |-> s,
                            out |-> None] : s \in selectionsOf(a)} :
                              a \in VerdictArticles}

CallSubmitGuess ==
    /\ probe.fn = "submitGuess" /\ probe.out = None
    /\ probe' = [probe EXCEPT !.out = Some(isCorrect(probe.article, probe.selected))]
    /\ UNCHANGED gameVars

NextVerdict == CallSubmitGuess

SpecVerdict == InitVerdict /\ [][NextVerdict]_vars

\* submitGuess has decided.
VerdictGiven == probe.fn = "submitGuess" /\ probe.out # None

\* The text of the k-th selected word, as the guess holds it
selectedWord(k) ==
    toLowerCase(stripNonWord(
        displayArticle(probe.article.extract)[probe.selected[k]].text))

\* The words of the sentence that holds the error
ErrorSentenceWords ==
    split(toLowerCase(findErrorSentence(probe.article.extract,
                                        errorWordsOf(probe.article))))

\* The k-th selected word has to do with the planted error: it matches an
\* error word, or it is (part of) a word of the error sentence.
Related(k) ==
    \/ matchesError(selectedWord(k), normalizeWords(errorWordsOf(probe.article)))
    \/ \E j \in 1..Len(ErrorSentenceWords) :
           \/ includes(ErrorSentenceWords[j], selectedWord(k))
           \/ includes(selectedWord(k), ErrorSentenceWords[j])

\* C32: in every mode a guess is a Win only if at least one selected word
\* matches the planted error; a guess of unrelated words never wins,
\* whatever its size.
C32_WinNeedsAnErrorMatch ==
    (VerdictGiven /\ valueOf(probe.out))
        => \E k \in 1..Len(probe.selected) : Related(k)

\* Every wrong term of the article stands in the text shown.
WrongTermsDisplayed ==
    \A e \in 1..Len(errorWordsOf(probe.article)) :
        includes(toLowerCase(probe.article.extract), errorWordsOf(probe.article)[e])

\* C33: a word-mode puzzle whose wrong term, one word or several, stands in
\* the text shown is winnable: some selection of its words wins.
C33_WordPuzzleIsWinnable ==
    (/\ VerdictGiven
     /\ errorTypeOf(probe.article) = "word"
     /\ WrongTermsDisplayed)
        => \E s \in selectionsOf(probe.article) : isCorrect(probe.article, s)

\* --------------------------------------------------------------------------
\* The completion records
\* --------------------------------------------------------------------------

\* The handler that ran last changed the completion records.
RecordsChanged == completions # ev.completions0

\* C34: the completion records change only on a Win, and only at the key of
\* the date of the loaded puzzle: any other handler (incorrect or empty
\* guess, loss, selection, load, timer) leaves every record as it was, and a
\* Win leaves the records of all other dates as they were.
C34_RecordsChangeOnlyOnWinAtItsDate ==
    RecordsChanged
        => /\ ev.op = "submit" /\ ev.verdict = "win"
           /\ DOMAIN completions = DOMAIN ev.completions0 \cup {completionDate}
           /\ \A d \in DOMAIN ev.completions0 :
                  d # completionDate => completions[d] = ev.completions0[d]

\* A Win on one date with the record of another date already stored
C34_Witness ==
    /\ RecordsChanged
    /\ ev.verdict = "win"
    /\ \E d \in DOMAIN ev.completions0 :
           d # completionDate /\ completions[d] = ev.completions0[d]

\* --------------------------------------------------------------------------
\* The game with one article whose text holds, next to its two wrong words,
\* a longer word that contains one and a shorter word contained in the other
\* --------------------------------------------------------------------------

\* "an a car cargo": no -> an, bus -> car
ArticleCargo ==
    [title |-> "Cargo",
     extract |-> <<"a","n"," ","a"," ","c","a","r"," ","c","a","r","g","o">>,
     replacements |-> << [original |-> <<"n","o">>, replacement |-> <<"a","n">>],
                         [original |-> <<"b","u","s">>,
                          replacement |-> <<"c","a","r">>] >>,
     errorType |-> "word"]

InitCargo ==
    /\ fieldsAfterConstructor
    /\ served = <<ArticleCargo>>
    /\ probe = NoProbe

SpecCargo == InitCargo /\ [][NextParis]_vars

\* The guess just submitted was a Win.
Won == ev.op = "submit" /\ ev.verdict = "win"

\* The word of element k as the article was displayed, as validation reads it
displayedWord(k) ==
    toLowerCase(stripNonWord(
        displayArticle(valueOf(PuzzleOfSelectedDate).extract)[k].text))

\* Validation counts the word as an error match.
ErrorMatch(word) == classify(word, errorWords, originalWords) = "correct"

\* Element k was rewritten to an original word and marked correct.
Revealed(k) == "word-correct" \in dom[k].classes

\* C35: the rule that reveals the answer agrees with the rule that validates
\* the guess.  On a Win every selected word that was counted as an error
\* match is rewritten and marked correct, and no word that validation would
\* not accept as an error match is rewritten.
C35_RevealAgreesWithValidation ==
    Won
        => /\ \A j \in 1..Len(ev.selection0) :
                  ErrorMatch(ev.guessWords[j]) => Revealed(ev.selection0[j])
           /\ \A k \in 1..Len(dom) :
                  Revealed(k) => ErrorMatch(displayedWord(k))

\* --------------------------------------------------------------------------
\* The archive and the random puzzle
\* --------------------------------------------------------------------------

\* C36: opening the archive and asking for a random puzzle never throw,
\* whether the configuration fetch is still outstanding, has failed or has
\* ended well.
C36_ArchiveAndRandomNeverThrow ==
    ev.op \in {"archive", "random"} => ev.verdict # "throw"

\* C37: archive entry #n loads the article it lists.  For every n from 1 to
\* the number of articles, the article selected for the date of the entry is
\* articles[n-1], and the puzzle number shown after the load is n.
C37_ArchiveEntryLoadsItsArticle ==
    \A n \in 1..Len(probe.config.articles) :
        (ArticleSelected /\ probe.day = calculateDateFromPuzzleNumber(n))
            => /\ valueOf(probe.out).article = Some(probe.config.articles[n])
               /\ valueOf(probe.out).puzzleNumber = n

====
